---- MODULE Spec2Model ----
(***************************************************************************)
(* The zip combinator of rx/operators/observable/zip.py: the N-ary zip     *)
(* (zip.subscribe with its closures next, done, func, send) and the        *)
(* List-Zip fast path (_zip_with_list).                                    *)
(*                                                                         *)
(* Source indices are 0..n-1 as in the code.  The k-th value (k = 1, 2, ..)*)
(* of source i is the integer k * 10^i, so that a sum of one value per     *)
(* source shows, digit by digit, which position of which source went into  *)
(* it.  The j-th element (j = 0, 1, ..) of the list operand is 10 * (j+1). *)
(*                                                                         *)
(* The observer, the source subscriptions and the disposables are code of  *)
(* rx.core and rx.disposables; they are modelled from the specification    *)
(* (sections 3, 4.2, 5, 6) and flagged as such where they are defined.     *)
(***************************************************************************)
EXTENDS Integers, Sequences, FiniteSets, TLC

\* Bounds of the model.
MaxN == 3          \* at most this many sources in the N-ary zip
MaxLen == 2        \* at most this many values per source, and list elements
MaxDispose == 2    \* at most this many calls of dispose() on the handle

VARIABLES
    args,            \* zip(*args): the operands' kinds, in order
    result_mapper,   \* zip(..., result_mapper=): "None" or "sum"
    poison,          \* the supplied combiner raises on a first argument k (0: never)
    second,          \* _zip_with_list: the list operand
    script_len,      \* per source: how many values it emits before it completes
    sent,            \* per source: how many values it has delivered
    src,             \* per source: "live", "completed" or "failed"
    subscribed,      \* whether subscribe() has run
    queues,          \* zip.subscribe: queues
    is_done,         \* zip.subscribe: is_done
    subscriptions,   \* zip.subscribe: subscriptions (index -> source held, or None)
    disposals,       \* per source: dispose() calls its subscription has received
    is_disposed,     \* the returned handle: whether it has been disposed
    dispose_calls,   \* how many times the caller has called dispose() on the handle
    index,           \* _zip_with_list.subscribe: index
    length,          \* _zip_with_list.subscribe: length
    out,             \* the calls made on observer, in order
    pc,              \* per source: where its running callback stands (concurrent delivery)
    queued_values,   \* per source: next's local queued_values (concurrent delivery)
    res,             \* per source: next's local res (concurrent delivery)
    cells,           \* two subscribers: the closure states subscribe has created
    closure,         \* two subscribers: per subscriber, the state its callbacks hold
    outs,            \* two subscribers: per subscriber, the calls on its observer
    sents,           \* two subscribers: per subscriber and source, values delivered
    srcs             \* two subscribers: per subscriber and source, "live", ...

vars == <<args, result_mapper, poison, second, script_len, sent, src, subscribed,
          queues, is_done, subscriptions, disposals, is_disposed, dispose_calls,
          index, length, out, pc, queued_values, res,
          cells, closure, outs, sents, srcs>>

\* The observers subscribed to one zip definition, side by side.
Subscribers == {"a", "b"}

None == -1

\* ---------------------------------------------------------------- values

RECURSIVE Pow10(_)
Pow10(i) == IF i = 0 THEN 1 ELSE 10 * Pow10(i - 1)

\* The k-th value source i emits.
SourceValue(i, k) == k * Pow10(i)

\* The list operand of length len.
ListOperand(len) == [j \in 1..len |-> 10 * j]

RECURSIVE Sum(_)
Sum(s) == IF s = <<>> THEN 0 ELSE Head(s) + Sum(Tail(s))

RECURSIVE Min(_)
Min(S) == LET x == CHOOSE y \in S : TRUE
          IN IF S = {x} THEN x
             ELSE LET m == Min(S \ {x}) IN IF x < m THEN x ELSE m

Last(s) == s[Len(s)]

\* A call's outcome: a value returned or an exception raised.
Returned(v) == [raised |-> FALSE, value |-> v, error |-> "none"]
Raised(e) == [raised |-> TRUE, value |-> 0, error |-> e]

\* A call on the observer.
Call(kind, value, error, source) ==
    [kind |-> kind, value |-> value, error |-> error, source |-> source]
NoCall == Call("none", 0, "none", None)
Send(v) == Call("send", v, "none", None)
Throw(e, i) == Call("throw", 0, e, i)
Close == Call("close", 0, "none", None)

\* ------------------------------------------------------- construction

\* zip, line 31: the List-Zip fast path is taken for exactly two operands the
\* second of which is an Iterable.
IsList == Len(args) = 2 /\ args[2] = "Iterable"

\* The indices of the sources subscribed to: range(n) with n = len(sources) in
\* zip.subscribe; the one source `first` in _zip_with_list.
Sources == IF IsList THEN {0} ELSE 0..(Len(args) - 1)

\* The operand lists zip is constructed with.
ArgLists == {[k \in 1..m |-> "Observable"] : m \in 0..MaxN}
            \cup {<<"Observable", "Iterable">>}

\* The longest script of a source: in List-Zip the source may outlast the list.
MaxScript == IF IsList THEN MaxLen + 2 ELSE MaxLen

\* The combiner the caller supplies: the sum of its arguments; it raises when
\* its first argument is the poison-th value of source 0.
sum(vals) ==
    IF poison # 0 /\ vals[1] = SourceValue(0, poison)
    THEN Raised("CombinerError")
    ELSE Returned(Sum(vals))

\* Python's list(*vals) on integer values: list() of several arguments, or of
\* one argument that is not iterable, raises TypeError.
list(vals) ==
    IF Len(vals) = 0 THEN Returned(<<>>) ELSE Raised("TypeError")

\* zip, line 35 and line 46: result_mapper = result_mapper or list;
\* result_mapper(*queued_values).
zip_result_mapper(vals) ==
    IF result_mapper = "None" THEN list(vals) ELSE sum(vals)

\* _zip_with_list, line 93: result_mapper(left, right), result_mapper passed
\* through as given; calling None raises TypeError.
zip_with_list_result_mapper(left, right) ==
    IF result_mapper = "None" THEN Raised("TypeError") ELSE sum(<<left, right>>)

Init ==
    /\ args \in ArgLists
    /\ result_mapper \in {"None", "sum"}
    /\ poison \in 0..MaxLen
    /\ result_mapper = "None" => poison = 0
    /\ \E len \in 0..MaxLen : second = IF IsList THEN ListOperand(len) ELSE <<>>
    /\ script_len \in [Sources -> 0..MaxScript]
    /\ sent = [i \in Sources |-> 0]
    /\ src = [i \in Sources |-> "live"]
    /\ subscribed = FALSE
    /\ queues = <<>>
    /\ is_done = <<>>
    /\ subscriptions = <<>>
    /\ disposals = [i \in Sources |-> 0]
    /\ is_disposed = FALSE
    /\ dispose_calls = 0
    /\ index = 0
    /\ length = 0
    /\ out = <<>>
    /\ pc = [i \in Sources |-> "idle"]
    /\ queued_values = [i \in Sources |-> <<>>]
    /\ res = [i \in Sources |-> 0]
    /\ cells = <<>>
    /\ closure = [s \in Subscribers |-> None]
    /\ outs = [s \in Subscribers |-> <<>>]
    /\ sents = [s \in Subscribers |-> [i \in Sources |-> 0]]
    /\ srcs = [s \in Subscribers |-> [i \in Sources |-> "live"]]

\* ------------------------------------------------- the N-ary state machine

\* next with x.pop() for x.pop(0): the values are taken from the tails.
next_pop_last(i, qs, dn) ==
    IF \A j \in DOMAIN qs : Len(qs[j]) > 0
    THEN LET vals == [k \in 1..Len(args) |-> Last(qs[k - 1])]
             popped == [j \in DOMAIN qs |-> SubSeq(qs[j], 1, Len(qs[j]) - 1)]
             r == zip_result_mapper(vals)
         IN IF r.raised
            THEN [queues |-> popped, calls |-> <<Throw(r.error, None)>>]
            ELSE [queues |-> popped, calls |-> <<Send(r.value)>>]
    ELSE IF \A j \in DOMAIN dn : j # i => dn[j]
         THEN [queues |-> qs, calls |-> <<Close>>]
         ELSE [queues |-> qs, calls |-> <<>>]

\* next without the return of line 49: observer.send follows observer.throw.
next_no_return(i, qs, dn) ==
    IF \A j \in DOMAIN qs : Len(qs[j]) > 0
    THEN LET vals == [k \in 1..Len(args) |-> Head(qs[k - 1])]
             popped == [j \in DOMAIN qs |-> Tail(qs[j])]
             r == zip_result_mapper(vals)
         IN IF r.raised
            THEN [queues |-> popped,
                  calls |-> <<Throw(r.error, None), Send(r.value)>>]
            ELSE [queues |-> popped, calls |-> <<Send(r.value)>>]
    ELSE IF \A j \in DOMAIN dn : j # i => dn[j]
         THEN [queues |-> qs, calls |-> <<Close>>]
         ELSE [queues |-> qs, calls |-> <<>>]

\* next with an except clause that swallows the combiner's exception.
next_swallow(i, qs, dn) ==
    IF \A j \in DOMAIN qs : Len(qs[j]) > 0
    THEN LET vals == [k \in 1..Len(args) |-> Head(qs[k - 1])]
             popped == [j \in DOMAIN qs |-> Tail(qs[j])]
             r == zip_result_mapper(vals)
         IN IF r.raised
            THEN [queues |-> popped, calls |-> <<>>]
            ELSE [queues |-> popped, calls |-> <<Send(r.value)>>]
    ELSE IF \A j \in DOMAIN dn : j # i => dn[j]
         THEN [queues |-> qs, calls |-> <<Close>>]
         ELSE [queues |-> qs, calls |-> <<>>]

\* next with any(...) for all(...) in line 52: it completes as soon as one
\* other source is done.
next_any_done(i, qs, dn) ==
    IF \A j \in DOMAIN qs : Len(qs[j]) > 0
    THEN LET vals == [k \in 1..Len(args) |-> Head(qs[k - 1])]
             popped == [j \in DOMAIN qs |-> Tail(qs[j])]
             r == zip_result_mapper(vals)
         IN IF r.raised
            THEN [queues |-> popped, calls |-> <<Throw(r.error, None)>>]
            ELSE [queues |-> popped, calls |-> <<Send(r.value)>>]
    ELSE IF \E j \in DOMAIN dn : j # i /\ dn[j]
         THEN [queues |-> qs, calls |-> <<Close>>]
         ELSE [queues |-> qs, calls |-> <<>>]

\* next with the two tests in the other order: the done flags of the other
\* sources are tested before the queues.
next_done_first(i, qs, dn) ==
    IF (DOMAIN dn) \ {i} # {} /\ \A j \in DOMAIN dn : j # i => dn[j]
    THEN [queues |-> qs, calls |-> <<Close>>]
    ELSE IF \A j \in DOMAIN qs : Len(qs[j]) > 0
         THEN LET vals == [k \in 1..Len(args) |-> Head(qs[k - 1])]
                  popped == [j \in DOMAIN qs |-> Tail(qs[j])]
                  r == zip_result_mapper(vals)
              IN IF r.raised
                 THEN [queues |-> popped, calls |-> <<Throw(r.error, None)>>]
                 ELSE [queues |-> popped, calls |-> <<Send(r.value)>>]
         ELSE [queues |-> qs, calls |-> <<>>]

\* zip.subscribe.next, lines 42-53, run to its end: the queues it leaves and
\* the calls it makes on observer.  qs are the queues and dn the done flags
\* it reads.
next(i, qs, dn) ==
    IF \A j \in DOMAIN qs : Len(qs[j]) > 0
    THEN LET vals == [k \in 1..Len(args) |-> Head(qs[k - 1])]
             popped == [j \in DOMAIN qs |-> Tail(qs[j])]
             r == zip_result_mapper(vals)
         IN IF r.raised
            THEN [queues |-> popped, calls |-> <<Throw(r.error, None)>>]
            ELSE [queues |-> popped, calls |-> <<Send(r.value)>>]
    ELSE IF \A j \in DOMAIN dn : j # i => dn[j]
         THEN [queues |-> qs, calls |-> <<Close>>]
         ELSE [queues |-> qs, calls |-> <<>>]

\* send with queues[i].insert(0, x) for queues[i].append(x).
send_prepend(i, x, qs, dn) == next(i, [qs EXCEPT ![i] = <<x>> \o @], dn)

\* send with its two statements in the other order: next(i), then the append.
send_next_first(i, x, qs, dn) ==
    LET r == next(i, qs, dn)
    IN [queues |-> [r.queues EXCEPT ![i] = Append(@, x)], calls |-> r.calls]

\* zip.subscribe.func.send, lines 67-69: queues[i].append(x); next(i).
send(i, x, qs, dn) == next(i, [qs EXCEPT ![i] = Append(@, x)], dn)

\* done with the naive rule: a source done with its queue empty completes.
done_naive(i, dn) ==
    LET dn1 == [dn EXCEPT ![i] = TRUE]
    IN [is_done |-> dn1,
        calls |-> IF queues[i] = <<>> \/ \A j \in DOMAIN dn1 : dn1[j]
                  THEN <<Close>> ELSE <<>>]

\* done with all(is_done) tested before is_done[i] is set.
done_check_first(i, dn) ==
    [is_done |-> [dn EXCEPT ![i] = TRUE],
     calls |-> IF \A j \in DOMAIN dn : dn[j] THEN <<Close>> ELSE <<>>]

\* zip.subscribe.done, lines 55-58.
done(i, dn) ==
    LET dn1 == [dn EXCEPT ![i] = TRUE]
    IN [is_done |-> dn1,
        calls |-> IF \A j \in DOMAIN dn1 : dn1[j] THEN <<Close>> ELSE <<>>]

\* An error callback that holds the failure back while values are buffered.
throw_buffered(i, e) ==
    IF \A j \in DOMAIN queues : queues[j] = <<>> THEN <<Throw(e, i)>> ELSE <<>>

\* zip.subscribe.func, line 71: the error callback handed to the source is
\* observer.throw itself.
throw(i, e) == <<Throw(e, i)>>

\* func storing every sad in slot 0: subscriptions[0] = sad.
func_slot0(i, subs) == [subs EXCEPT ![0] = i]

\* zip.subscribe.func, line 72: subscriptions[i] = sad, the disposable of
\* source i.
func(i, subs) == [subs EXCEPT ![i] = i]

\* zip.subscribe, lines 73-74: for idx in range(n): func(idx).
RECURSIVE subscribe_loop(_, _)
subscribe_loop(idx, subs) ==
    IF idx >= Len(args) THEN subs ELSE subscribe_loop(idx + 1, func(idx, subs))

\* ------------------------------------------------------ the List-Zip path

\* send without index += 1.
zip_with_list_send_no_increment(left, idx, len) ==
    IF idx < len
    THEN LET right == second[idx + 1]
             r == zip_with_list_result_mapper(left, right)
         IN IF r.raised
            THEN [index |-> idx, calls |-> <<Throw(r.error, None)>>]
            ELSE [index |-> idx, calls |-> <<Send(r.value)>>]
    ELSE [index |-> idx, calls |-> <<Close>>]

\* send completing as soon as the last list element has been combined.
zip_with_list_send_eager(left, idx, len) ==
    IF idx < len
    THEN LET right == second[idx + 1]
             r == zip_with_list_result_mapper(left, right)
         IN IF r.raised
            THEN [index |-> idx + 1, calls |-> <<Throw(r.error, None)>>]
            ELSE [index |-> idx + 1,
                  calls |-> IF idx + 1 = len THEN <<Send(r.value), Close>>
                            ELSE <<Send(r.value)>>]
    ELSE [index |-> idx, calls |-> <<Close>>]

\* send without the return of line 96: observer.send follows observer.throw.
zip_with_list_send_no_return(left, idx, len) ==
    IF idx < len
    THEN LET right == second[idx + 1]
             r == zip_with_list_result_mapper(left, right)
         IN IF r.raised
            THEN [index |-> idx + 1,
                  calls |-> <<Throw(r.error, None), Send(r.value)>>]
            ELSE [index |-> idx + 1, calls |-> <<Send(r.value)>>]
    ELSE [index |-> idx, calls |-> <<Close>>]

\* send with index += 1 ahead of the test of line 89's else branch too.
zip_with_list_send_always_increment(left, idx, len) ==
    IF idx < len
    THEN LET right == second[idx + 1]
             r == zip_with_list_result_mapper(left, right)
         IN IF r.raised
            THEN [index |-> idx + 1, calls |-> <<Throw(r.error, None)>>]
            ELSE [index |-> idx + 1, calls |-> <<Send(r.value)>>]
    ELSE [index |-> idx + 1, calls |-> <<Close>>]

\* _zip_with_list.subscribe.send, lines 86-99: the cursor it leaves and the
\* calls it makes on observer.  idx is the cursor and len the length it reads;
\* second[idx] of the code is second[idx + 1] of the 1-based sequence.
zip_with_list_send(left, idx, len) ==
    IF idx < len
    THEN LET right == second[idx + 1]
             r == zip_with_list_result_mapper(left, right)
         IN IF r.raised
            THEN [index |-> idx + 1, calls |-> <<Throw(r.error, None)>>]
            ELSE [index |-> idx + 1, calls |-> <<Send(r.value)>>]
    ELSE [index |-> idx, calls |-> <<Close>>]

\* A completion callback that waits for the list to be exhausted.
zip_with_list_close_when_exhausted ==
    IF index >= length THEN <<Close>> ELSE <<>>

\* _zip_with_list.subscribe, line 101: the error and completion callbacks
\* handed to the source are observer.throw and observer.close themselves.
zip_with_list_throw(e) == <<Throw(e, 0)>>
zip_with_list_close == <<Close>>

\* ------------------------------------- observer, subscriptions, disposables

\* The source subscriptions the returned handle owns: the entries of
\* CompositeDisposable(subscriptions) (line 75), or the subscription of first
\* (line 101).
Owned ==
    IF IsList THEN {0}
    ELSE {subscriptions[k] : k \in DOMAIN subscriptions} \ {None}

\* A source subscription delivers notifications until it is disposed:
\* disposing it cancels further notifications from that source.
Active(i) == disposals[i] = 0

\* Whether a handler's calls end the combined sequence.
Terminates(calls) ==
    \E k \in DOMAIN calls : calls[k].kind \in {"throw", "close"}

\* Disposing the handle: every subscription it owns receives dispose(), once;
\* a disposed handle does nothing.
HandleDispose ==
    IF is_disposed
    THEN UNCHANGED <<is_disposed, disposals>>
    ELSE /\ is_disposed' = TRUE
         /\ disposals' = [i \in Sources |->
                            IF i \in Owned THEN disposals[i] + 1 ELSE disposals[i]]

\* The calls reach the observer; a completion or failure ends the combined
\* sequence, and the handle is disposed as cleanup.
Deliver(calls) ==
    /\ out' = out \o calls
    /\ IF Terminates(calls)
       THEN HandleDispose
       ELSE UNCHANGED <<is_disposed, disposals>>

construction == <<args, result_mapper, poison, second, script_len>>
callbacks == <<pc, queued_values, res>>
twin == <<cells, closure, outs, sents, srcs>>

\* ---------------------------------------------------------------- actions

\* subscribe ending with the test of line 57, if all(is_done):
\* observer.close(), which holds at once of no sources.
subscribe_completing_empty ==
    /\ ~subscribed
    /\ ~IsList
    /\ subscribed' = TRUE
    /\ queues' = [i \in Sources |-> <<>>]
    /\ is_done' = [i \in Sources |-> FALSE]
    /\ subscriptions' = subscribe_loop(0, [i \in Sources |-> None])
    /\ Deliver(IF Sources = {} THEN <<Close>> ELSE <<>>)
    /\ UNCHANGED <<construction, twin, callbacks, sent, src, dispose_calls, index,
                   length>>

\* zip.subscribe, lines 37-75.
subscribe ==
    /\ ~subscribed
    /\ ~IsList
    /\ subscribed' = TRUE
    /\ queues' = [i \in Sources |-> <<>>]
    /\ is_done' = [i \in Sources |-> FALSE]
    /\ subscriptions' = subscribe_loop(0, [i \in Sources |-> None])
    /\ UNCHANGED <<construction, twin, callbacks, sent, src, disposals, is_disposed,
                   dispose_calls, index, length, out>>

\* _zip_with_list.subscribe, lines 82-101.
zip_with_list_subscribe ==
    /\ ~subscribed
    /\ IsList
    /\ subscribed' = TRUE
    /\ length' = Len(second)
    /\ index' = 0
    /\ UNCHANGED <<construction, twin, callbacks, sent, src, queues, is_done,
                   subscriptions, disposals, is_disposed, dispose_calls, out>>

\* Source i, its subscription active, emits its next value: send(x) runs.
SourceSends(i) ==
    /\ subscribed /\ ~IsList
    /\ Active(i)
    /\ src[i] = "live" /\ sent[i] < script_len[i]
    /\ sent' = [sent EXCEPT ![i] = @ + 1]
    /\ LET r == send(i, SourceValue(i, sent[i] + 1), queues, is_done)
       IN queues' = r.queues /\ Deliver(r.calls)
    /\ UNCHANGED <<construction, twin, callbacks, src, subscribed, is_done,
                   subscriptions, dispose_calls, index, length>>

\* Source i, its subscription active, completes after its last value:
\* done(i) runs.
SourceCompletes(i) ==
    /\ subscribed /\ ~IsList
    /\ Active(i)
    /\ src[i] = "live" /\ sent[i] = script_len[i]
    /\ src' = [src EXCEPT ![i] = "completed"]
    /\ LET r == done(i, is_done)
       IN is_done' = r.is_done /\ Deliver(r.calls)
    /\ UNCHANGED <<construction, twin, callbacks, sent, subscribed, queues,
                   subscriptions, dispose_calls, index, length>>

\* Source i, its subscription active, fails: observer.throw runs.
SourceFails(i) ==
    /\ subscribed /\ ~IsList
    /\ Active(i)
    /\ src[i] = "live"
    /\ src' = [src EXCEPT ![i] = "failed"]
    /\ Deliver(throw(i, "SourceError"))
    /\ UNCHANGED <<construction, twin, callbacks, sent, subscribed, queues, is_done,
                   subscriptions, dispose_calls, index, length>>

\* List-Zip: the source emits its next value.
ListSourceSends ==
    /\ subscribed /\ IsList
    /\ Active(0)
    /\ src[0] = "live" /\ sent[0] < script_len[0]
    /\ sent' = [sent EXCEPT ![0] = @ + 1]
    /\ LET r == zip_with_list_send(SourceValue(0, sent[0] + 1), index, length)
       IN index' = r.index /\ Deliver(r.calls)
    /\ UNCHANGED <<construction, twin, callbacks, src, subscribed, queues, is_done,
                   subscriptions, dispose_calls, length>>

\* List-Zip: the source completes.
ListSourceCompletes ==
    /\ subscribed /\ IsList
    /\ Active(0)
    /\ src[0] = "live" /\ sent[0] = script_len[0]
    /\ src' = [src EXCEPT ![0] = "completed"]
    /\ Deliver(zip_with_list_close)
    /\ UNCHANGED <<construction, twin, callbacks, sent, subscribed, queues, is_done,
                   subscriptions, dispose_calls, index, length>>

\* List-Zip: the source fails.
ListSourceFails ==
    /\ subscribed /\ IsList
    /\ Active(0)
    /\ src[0] = "live"
    /\ src' = [src EXCEPT ![0] = "failed"]
    /\ Deliver(zip_with_list_throw("SourceError"))
    /\ UNCHANGED <<construction, twin, callbacks, sent, subscribed, queues, is_done,
                   subscriptions, dispose_calls, index, length>>

\* The caller disposes the handle subscribe returned.
Dispose ==
    /\ subscribed
    /\ dispose_calls < MaxDispose
    /\ dispose_calls' = dispose_calls + 1
    /\ HandleDispose
    /\ UNCHANGED <<construction, twin, callbacks, sent, src, subscribed, queues,
                   is_done, subscriptions, index, length, out>>

Next ==
    \/ subscribe
    \/ zip_with_list_subscribe
    \/ \E i \in Sources : SourceSends(i)
    \/ \E i \in Sources : SourceCompletes(i)
    \/ \E i \in Sources : SourceFails(i)
    \/ ListSourceSends
    \/ ListSourceCompletes
    \/ ListSourceFails
    \/ Dispose

Spec == Init /\ [][Next]_vars

\* ------------------------------------------------ concurrent delivery
\* The callbacks of different sources run concurrently, one statement at a
\* time; each source delivers its own notifications one after the other.
\* pc[i] is where the callback of source i stands: "idle", "next" (line 43 is
\* about to run), "pop" (line 45, one x.pop(0) per step), "map" (line 46),
\* "emit" (line 51) or "done" (line 57 is about to run).

InitConcurrent ==
    /\ Init
    /\ ~IsList
    /\ Len(args) >= 1
    /\ result_mapper = "sum"

\* Line 68: queues[i].append(x).
send_append(i) ==
    /\ subscribed /\ Active(i) /\ pc[i] = "idle"
    /\ src[i] = "live" /\ sent[i] < script_len[i]
    /\ sent' = [sent EXCEPT ![i] = @ + 1]
    /\ queues' = [queues EXCEPT ![i] = Append(@, SourceValue(i, sent[i] + 1))]
    /\ pc' = [pc EXCEPT ![i] = "next"]
    /\ UNCHANGED <<construction, twin, src, subscribed, is_done, subscriptions,
                   disposals, is_disposed, dispose_calls, index, length, out,
                   queued_values, res>>

\* Lines 43 and 52-53: the test all([len(q) for q in queues]) and, when it
\* fails, the test of the other sources' done flags.
next_test(i) ==
    /\ pc[i] = "next"
    /\ IF \A j \in Sources : Len(queues[j]) > 0
       THEN /\ pc' = [pc EXCEPT ![i] = "pop"]
            /\ queued_values' = [queued_values EXCEPT ![i] = <<>>]
            /\ UNCHANGED <<out, is_disposed, disposals>>
       ELSE /\ pc' = [pc EXCEPT ![i] = "idle"]
            /\ UNCHANGED queued_values
            /\ IF \A j \in Sources : j # i => is_done[j]
               THEN Deliver(<<Close>>)
               ELSE UNCHANGED <<out, is_disposed, disposals>>
    /\ UNCHANGED <<construction, twin, sent, src, subscribed, queues, is_done,
                   subscriptions, dispose_calls, index, length, res>>

\* Line 45, one element of the comprehension: x.pop(0) for the next queue;
\* pop from an empty list raises IndexError, which line 47 catches.
next_pop(i) ==
    /\ pc[i] = "pop"
    /\ LET j == Len(queued_values[i])
       IN IF queues[j] = <<>>
          THEN /\ Deliver(<<Throw("IndexError", None)>>)
               /\ pc' = [pc EXCEPT ![i] = "idle"]
               /\ UNCHANGED <<queues, queued_values>>
          ELSE /\ queued_values' =
                     [queued_values EXCEPT ![i] = Append(@, Head(queues[j]))]
               /\ queues' = [queues EXCEPT ![j] = Tail(@)]
               /\ pc' = [pc EXCEPT ![i] =
                           IF j + 1 = Len(args) THEN "map" ELSE "pop"]
               /\ UNCHANGED <<out, is_disposed, disposals>>
    /\ UNCHANGED <<construction, twin, sent, src, subscribed, is_done, subscriptions,
                   dispose_calls, index, length, res>>

\* Lines 46-49: res = result_mapper(*queued_values), or observer.throw(ex).
next_map(i) ==
    /\ pc[i] = "map"
    /\ LET r == zip_result_mapper(queued_values[i])
       IN IF r.raised
          THEN /\ Deliver(<<Throw(r.error, None)>>)
               /\ pc' = [pc EXCEPT ![i] = "idle"]
               /\ UNCHANGED res
          ELSE /\ res' = [res EXCEPT ![i] = r.value]
               /\ pc' = [pc EXCEPT ![i] = "emit"]
               /\ UNCHANGED <<out, is_disposed, disposals>>
    /\ UNCHANGED <<construction, twin, sent, src, subscribed, queues, is_done,
                   subscriptions, dispose_calls, index, length, queued_values>>

\* Line 51: observer.send(res).
next_emit(i) ==
    /\ pc[i] = "emit"
    /\ Deliver(<<Send(res[i])>>)
    /\ pc' = [pc EXCEPT ![i] = "idle"]
    /\ UNCHANGED <<construction, twin, sent, src, subscribed, queues, is_done,
                   subscriptions, dispose_calls, index, length, queued_values,
                   res>>

\* Line 56: is_done[i] = True.
done_set(i) ==
    /\ subscribed /\ Active(i) /\ pc[i] = "idle"
    /\ src[i] = "live" /\ sent[i] = script_len[i]
    /\ src' = [src EXCEPT ![i] = "completed"]
    /\ is_done' = [is_done EXCEPT ![i] = TRUE]
    /\ pc' = [pc EXCEPT ![i] = "done"]
    /\ UNCHANGED <<construction, twin, sent, subscribed, queues, subscriptions,
                   disposals, is_disposed, dispose_calls, index, length, out,
                   queued_values, res>>

\* Lines 57-58: if all(is_done): observer.close().
done_test(i) ==
    /\ pc[i] = "done"
    /\ pc' = [pc EXCEPT ![i] = "idle"]
    /\ IF \A j \in Sources : is_done[j]
       THEN Deliver(<<Close>>)
       ELSE UNCHANGED <<out, is_disposed, disposals>>
    /\ UNCHANGED <<construction, twin, sent, src, subscribed, queues, is_done,
                   subscriptions, dispose_calls, index, length, queued_values,
                   res>>

\* Line 71: the source's failure runs observer.throw.
source_throw(i) ==
    /\ subscribed /\ Active(i) /\ pc[i] = "idle"
    /\ src[i] = "live"
    /\ src' = [src EXCEPT ![i] = "failed"]
    /\ Deliver(throw(i, "SourceError"))
    /\ UNCHANGED <<construction, twin, callbacks, sent, subscribed, queues, is_done,
                   subscriptions, dispose_calls, index, length>>

NextConcurrent ==
    \/ subscribe
    \/ \E i \in Sources : send_append(i)
    \/ \E i \in Sources : next_test(i)
    \/ \E i \in Sources : next_pop(i)
    \/ \E i \in Sources : next_map(i)
    \/ \E i \in Sources : next_emit(i)
    \/ \E i \in Sources : done_set(i)
    \/ \E i \in Sources : done_test(i)
    \/ \E i \in Sources : source_throw(i)

SpecConcurrent == InitConcurrent /\ [][NextConcurrent]_vars

\* ---------------------------------------------------- two subscribers
\* Two observers subscribe to the one Observable zip returned. The sources are
\* cold: each subscriber receives its own run of every source's script. Every
\* call of subscribe binds its own queues, is_done (index, length in
\* _zip_with_list), and the callbacks it registers close over those. cells
\* holds the states so bound, in the order of the calls; closure[s] is the one
\* the callbacks of subscriber s refer to.

\* The state bound once, by the first call, and shared by every later one.
new_closure_shared(cs, st) == IF cs = <<>> THEN <<st>> ELSE cs

\* zip.subscribe, lines 38-40, and _zip_with_list.subscribe, lines 83-84: the
\* local variables of this call of subscribe are bound afresh.
new_closure(cs, st) == Append(cs, st)

\* A subscription delivers nothing after its observer has received a
\* completion or a failure.
Live(s) == ~Terminates(outs[s])

single == <<sent, src, subscribed, queues, is_done, subscriptions, disposals,
            is_disposed, dispose_calls, index, length, out>>

InitTwo ==
    /\ Init
    /\ Len(args) = 2
    /\ poison = 0

\* Subscriber s calls subscribe of the N-ary zip: lines 37-75.
TwoSubscribe(s) ==
    /\ closure[s] = None
    /\ ~IsList
    /\ cells' = new_closure(cells, [queues |-> [i \in Sources |-> <<>>],
                                    is_done |-> [i \in Sources |-> FALSE],
                                    index |-> 0, length |-> 0])
    /\ closure' = [closure EXCEPT ![s] = Len(cells')]
    /\ UNCHANGED <<construction, callbacks, single, outs, sents, srcs>>

\* Subscriber s calls subscribe of List-Zip: lines 82-101.
TwoListSubscribe(s) ==
    /\ closure[s] = None
    /\ IsList
    /\ cells' = new_closure(cells, [queues |-> <<>>, is_done |-> <<>>,
                                    index |-> 0, length |-> Len(second)])
    /\ closure' = [closure EXCEPT ![s] = Len(cells')]
    /\ UNCHANGED <<construction, callbacks, single, outs, sents, srcs>>

\* Source i delivers its next value to subscriber s: send(x) of that
\* subscription runs on the state it closes over.
TwoSourceSends(s, i) ==
    /\ closure[s] # None /\ ~IsList
    /\ Live(s)
    /\ srcs[s][i] = "live" /\ sents[s][i] < script_len[i]
    /\ sents' = [sents EXCEPT ![s][i] = @ + 1]
    /\ LET c == closure[s]
           r == send(i, SourceValue(i, sents[s][i] + 1),
                     cells[c].queues, cells[c].is_done)
       IN /\ cells' = [cells EXCEPT ![c].queues = r.queues]
          /\ outs' = [outs EXCEPT ![s] = @ \o r.calls]
    /\ UNCHANGED <<construction, callbacks, single, closure, srcs>>

\* Source i completes for subscriber s: done(i) of that subscription runs.
TwoSourceCompletes(s, i) ==
    /\ closure[s] # None /\ ~IsList
    /\ Live(s)
    /\ srcs[s][i] = "live" /\ sents[s][i] = script_len[i]
    /\ srcs' = [srcs EXCEPT ![s][i] = "completed"]
    /\ LET c == closure[s]
           r == done(i, cells[c].is_done)
       IN /\ cells' = [cells EXCEPT ![c].is_done = r.is_done]
          /\ outs' = [outs EXCEPT ![s] = @ \o r.calls]
    /\ UNCHANGED <<construction, callbacks, single, closure, sents>>

\* Source i fails for subscriber s: observer.throw of that subscriber runs.
TwoSourceFails(s, i) ==
    /\ closure[s] # None /\ ~IsList
    /\ Live(s)
    /\ srcs[s][i] = "live"
    /\ srcs' = [srcs EXCEPT ![s][i] = "failed"]
    /\ outs' = [outs EXCEPT ![s] = @ \o throw(i, "SourceError")]
    /\ UNCHANGED <<construction, callbacks, single, cells, closure, sents>>

\* List-Zip: the source delivers its next value to subscriber s.
TwoListSourceSends(s) ==
    /\ closure[s] # None /\ IsList
    /\ Live(s)
    /\ srcs[s][0] = "live" /\ sents[s][0] < script_len[0]
    /\ sents' = [sents EXCEPT ![s][0] = @ + 1]
    /\ LET c == closure[s]
           r == zip_with_list_send(SourceValue(0, sents[s][0] + 1),
                                   cells[c].index, cells[c].length)
       IN /\ cells' = [cells EXCEPT ![c].index = r.index]
          /\ outs' = [outs EXCEPT ![s] = @ \o r.calls]
    /\ UNCHANGED <<construction, callbacks, single, closure, srcs>>

\* List-Zip: the source completes or fails for subscriber s, forwarded to
\* that subscriber's observer.
TwoListSourceEnds(s) ==
    /\ closure[s] # None /\ IsList
    /\ Live(s)
    /\ srcs[s][0] = "live"
    /\ \/ /\ sents[s][0] = script_len[0]
          /\ srcs' = [srcs EXCEPT ![s][0] = "completed"]
          /\ outs' = [outs EXCEPT ![s] = @ \o zip_with_list_close]
       \/ /\ srcs' = [srcs EXCEPT ![s][0] = "failed"]
          /\ outs' = [outs EXCEPT ![s] = @ \o zip_with_list_throw("SourceError")]
    /\ UNCHANGED <<construction, callbacks, single, cells, closure, sents>>

NextTwo ==
    \/ \E s \in Subscribers : TwoSubscribe(s)
    \/ \E s \in Subscribers : TwoListSubscribe(s)
    \/ \E s \in Subscribers : \E i \in Sources : TwoSourceSends(s, i)
    \/ \E s \in Subscribers : \E i \in Sources : TwoSourceCompletes(s, i)
    \/ \E s \in Subscribers : \E i \in Sources : TwoSourceFails(s, i)
    \/ \E s \in Subscribers : TwoListSourceSends(s)
    \/ \E s \in Subscribers : TwoListSourceEnds(s)

SpecTwo == InitTwo /\ [][NextTwo]_vars

\* ------------------------------------------------------------ properties

\* What the observer has received.
Sends == SelectSeq(out, LAMBDA c : c.kind = "send")
Throws == SelectSeq(out, LAMBDA c : c.kind = "throw")
Closes == SelectSeq(out, LAMBDA c : c.kind = "close")
IsTerminal(c) == c.kind \in {"throw", "close"}

\* The N-ary zip, subscribed, with at least one source.
Zip == subscribed /\ ~IsList /\ Len(args) >= 1
\* The List-Zip, subscribed.
ListZip == subscribed /\ IsList

\* The k-th index-aligned tuple of the N sources, in source order.
Tuple(k) == [j \in 1..Len(args) |-> SourceValue(j - 1, k)]
ShortestScript == Min({script_len[i] : i \in Sources})

\* Every notification still to come has been delivered or cut off.
Quiescent == \A i \in Sources : src[i] # "live" \/ ~Active(i)

\* C1: N-ary zip with a supplied combiner that does not raise, no source
\* failing and the handle not disposed by the caller: the values received are
\* the combiner applied to the 1st, 2nd, ... tuple of index-aligned source
\* values in source order, never more than min(L_1..L_N) of them, no failure is
\* received, and once every source has completed (or was cut off by the
\* completion of the zip) they are exactly min(L_1..L_N).
C1_ZipEmitsMinAligned ==
    (/\ Zip
     /\ result_mapper = "sum"
     /\ poison = 0 \/ poison > ShortestScript
     /\ dispose_calls = 0
     /\ \A i \in Sources : src[i] # "failed")
    => /\ Throws = <<>>
       /\ Len(Sends) <= ShortestScript
       /\ \A k \in 1..Len(Sends) : Sends[k].value = Sum(Tuple(k))
       /\ Quiescent => Len(Sends) = ShortestScript

\* C1 witness: three sources with scripts of lengths 2, 1, 2 have all completed
\* or been cut off; the one value 1 + 10 + 100 and the completion were received
\* although source 0 delivered both of its values.
C1_Witness ==
    /\ Zip /\ Len(args) = 3 /\ result_mapper = "sum" /\ poison = 0
    /\ script_len = [i \in Sources |-> IF i = 1 THEN 1 ELSE 2]
    /\ dispose_calls = 0
    /\ Quiescent
    /\ sent[0] = 2
    /\ out = <<Send(111), Close>>

\* C2: at most one completion or failure is ever received, and nothing is
\* received after it: a completion or failure is the last call on observer.
C2_TerminalIsLast ==
    \A k \in 1..Len(out) : IsTerminal(out[k]) => k = Len(out)

\* C2 witness: the zip has completed after a value while a source that had
\* not yet completed was cut off, and the caller disposed afterwards.
C2_Witness ==
    /\ Zip /\ Len(args) >= 2
    /\ Len(out) >= 2 /\ Last(out) = Close /\ out[1].kind = "send"
    /\ \E i \in Sources : src[i] = "live"
    /\ dispose_calls > 0

\* A step in which source i fails.
FailsIn(i) == src[i] = "live" /\ src'[i] = "failed"

\* C3: in the step in which a source i fails, its error is the call appended
\* to the observer's, whatever the queues and done flags hold, and the
\* subscriptions of all other sources have received dispose(); and the observer
\* never receives more than one failure.
C3_SourceFailureForwarded ==
    /\ [][\A i \in Sources : (Zip /\ FailsIn(i)) =>
            /\ out' = Append(out, Throw("SourceError", i))
            /\ \A j \in Sources \ {i} : disposals'[j] = 1]_vars
    /\ [](Len(Throws) <= 1)

\* C3 witness: source 1 failed while source 0 had values buffered and source 2
\* was done; the failure follows an emitted value, the others are disposed.
C3_Witness ==
    /\ Zip /\ Len(args) = 3
    /\ Len(out) >= 1 /\ Last(out) = Throw("SourceError", 1)
    /\ Len(queues[0]) > 0
    /\ is_done[2]
    /\ \A j \in Sources \ {1} : disposals[j] = 1
    /\ src[0] = "live" /\ sent[0] < script_len[0]

\* C4: once every source has delivered the value of the tuple the combiner
\* raises on (tuple number poison), the observer has received the combined
\* values of the tuples before it, then the combiner's failure and nothing
\* else, and every source subscription has received dispose(): no later value
\* is processed, even of sources with values left that would form a tuple.
C4_CombinerFailureTerminates ==
    (/\ Zip /\ result_mapper = "sum" /\ poison >= 1
     /\ \A i \in Sources : sent[i] >= poison)
    => /\ Len(out) = poison
       /\ \A k \in 1..(poison - 1) : out[k] = Send(Sum(Tuple(k)))
       /\ out[poison] = Throw("CombinerError", None)
       /\ \A i \in Sources : disposals[i] = 1

\* C4 witness: the combiner raised on the second tuple of three sources; the
\* first tuple's value was emitted before it, and a source that had not yet
\* completed was cut off.
C4_Witness ==
    /\ Zip /\ Len(args) = 3 /\ poison = 2
    /\ out = <<Send(111), Throw("CombinerError", None)>>
    /\ \E i \in Sources : src[i] = "live"
    /\ \A i \in Sources : disposals[i] = 1

\* A step in which the completion of source i is processed.
CompletesIn(i) == src[i] = "live" /\ src'[i] = "completed"

\* C5: a done flag once set stays set; the step that processes the completion
\* of source i sets its flag and, if all flags are then set, appends the
\* completion to the observer's calls; so whenever all N flags are set the
\* observer's last call is the completion.
C5_AllDoneCompletes ==
    /\ [][Zip => \A i \in Sources : is_done[i] => is_done'[i]]_vars
    /\ [][\A i \in Sources : (Zip /\ CompletesIn(i)) =>
            /\ is_done'[i]
            /\ (\A j \in Sources : is_done'[j]) => out' = Append(out, Close)]_vars
    /\ []((Zip /\ \A i \in Sources : is_done[i])
            => Len(out) >= 1 /\ Last(out) = Close)

\* C5 witness: three sources have all completed, the last completion having
\* completed the zip after its values.
C5_Witness ==
    /\ Zip /\ Len(args) = 3
    /\ \A i \in Sources : is_done[i] /\ script_len[i] = 2
    /\ out = <<Send(111), Send(222), Close>>

\* C6: after any dispose() of the handle of the N-ary zip every source
\* subscription has received dispose() exactly once, whether sources have
\* terminated or not, and the call delivers nothing; and once the handle is
\* disposed no step changes the queues, the done flags or the observer's
\* calls.
C6_DisposeCancelsAll ==
    /\ [][(Zip /\ dispose_calls' = dispose_calls + 1) =>
            /\ \A i \in Sources : disposals'[i] = 1
            /\ out' = out]_vars
    /\ [][(Zip /\ is_disposed) =>
            /\ out' = out /\ queues' = queues /\ is_done' = is_done
            /\ disposals' = disposals]_vars

\* C6 witness: the caller disposed twice before the zip terminated; one source
\* had completed, another still had a value to deliver, one value is buffered.
C6_Witness ==
    /\ Zip /\ Len(args) = 3
    /\ dispose_calls = 2
    /\ \A k \in 1..Len(out) : ~IsTerminal(out[k])
    /\ is_done[2]
    /\ src[0] = "live" /\ sent[0] < script_len[0] /\ Len(queues[0]) > 0
    /\ \A i \in Sources : disposals[i] = 1

\* C7: List-Zip with a supplied combiner that does not raise: the observer has
\* received exactly min(k, L) values when the source has delivered k, the i-th
\* being the combiner of the i-th source value and the i-th list element, and
\* no failure the source did not signal.
C7_ListZipEmitsMin ==
    (ListZip /\ result_mapper = "sum" /\ poison = 0)
    => /\ Len(Sends) = Min({sent[0], Len(second)})
       /\ \A k \in 1..Len(Sends) : Sends[k].value = SourceValue(0, k) + second[k]
       /\ \A k \in 1..Len(Throws) : Throws[k].error = "SourceError"

\* C7 witness: the source delivered 3 values against a list of 2 elements.
C7_Witness ==
    /\ ListZip /\ result_mapper = "sum" /\ poison = 0
    /\ Len(second) = 2 /\ sent[0] = 3
    /\ Sends = <<Send(11), Send(22)>>

\* C8 as stated: List-Zip has completed as soon as L results have been
\* emitted (L >= 1), whether or not the source delivers anything more.
C8_CompletesAtLthResult ==
    (ListZip /\ Len(second) >= 1 /\ Len(Sends) = Len(second))
    => Len(out) >= 1 /\ Last(out) = Close

\* C8 amended: while the source has delivered no more than L values without
\* terminating, List-Zip has not completed; the combined sequence completes on
\* the (L+1)-th value the source delivers, which produces the completion and no
\* value; the source subscription then has received dispose() and no further
\* source value is delivered or produces a call on observer.
C8_CompletesAtNextValue ==
    ListZip =>
      /\ (src[0] = "live" /\ sent[0] <= length) => Closes = <<>>
      /\ sent[0] > length =>
            /\ sent[0] = length + 1
            /\ Len(Sends) = length
            /\ Last(out) = Close
            /\ disposals[0] = 1
      /\ \A k \in 1..Len(out) : IsTerminal(out[k]) => k = Len(out)

\* C8 witness: list of 2 elements, a source with 4 values to deliver that has
\* not terminated: two values combined, the third completed the sequence and
\* released the subscription, the fourth is not delivered.
C8_Witness ==
    /\ ListZip /\ length = 2 /\ script_len[0] = 4 /\ src[0] = "live"
    /\ sent[0] = 3
    /\ out = <<Send(11), Send(22), Close>>
    /\ disposals[0] = 1

\* C10 as stated: constructed without a combiner and with two operands or
\* more, neither variant delivers a failure other than a source's own, and
\* every value received is the tuple of the index-aligned source values.
C10_DefaultCombinerCollects ==
    (subscribed /\ result_mapper = "None" /\ Len(args) >= 2)
    => /\ \A k \in 1..Len(Throws) : Throws[k].error = "SourceError"
       /\ \A k \in 1..Len(Sends) :
             Sends[k].value = IF IsList THEN <<SourceValue(0, k), second[k]>>
                              ELSE Tuple(k)

\* C9 as stated: under concurrent delivery every failure the observer
\* receives was raised by a source or by the combiner, and the values received
\* are the combiner's results of the 1st, 2nd, ... index-aligned tuple, each
\* once and in order.
C9_ConcurrentDeliveryAtomic ==
    (Zip /\ result_mapper = "sum")
    => /\ \A k \in 1..Len(Throws) :
             Throws[k].error \in {"SourceError", "CombinerError"}
       /\ \A k \in 1..Len(Sends) : Sends[k].value = Sum(Tuple(k))

\* A step in which a value of source i is processed.
ValueIn(i) == sent'[i] = sent[i] + 1

\* Source j has completed without ever emitting.
EmptyDone(j) == is_done[j] /\ sent[j] = 0

\* C11 as stated: N-ary zip, N >= 2, with a source that completed without
\* emitting: no value has been received, and the step that processes the next
\* value of any other source appends the completion.
C11_CompletesAtNextValue ==
    /\ []((Zip /\ Len(args) >= 2 /\ \E j \in Sources : EmptyDone(j))
            => Sends = <<>>)
    /\ [][\A i, j \in Sources :
            (Zip /\ Len(args) >= 2 /\ i # j /\ EmptyDone(j) /\ ValueIn(i))
            => out' = Append(out, Close)]_vars

\* C11 amended: N-ary zip, N >= 2, with a source j that completed without
\* emitting: no value is ever received; the step that processes a value of
\* another source i appends the completion exactly if every source other than
\* i is done by then, and otherwise calls nothing; and the step that completes
\* the last source appends the completion.
C11_CompletesWhenOthersDone ==
    /\ []((Zip /\ Len(args) >= 2 /\ \E j \in Sources : EmptyDone(j))
            => Sends = <<>>)
    /\ [][\A i, j \in Sources :
            (Zip /\ Len(args) >= 2 /\ i # j /\ EmptyDone(j) /\ ValueIn(i))
            => out' = IF \A h \in Sources \ {i} : is_done[h]
                      THEN Append(out, Close) ELSE out]_vars
    /\ [][\A i \in Sources :
            (Zip /\ Len(args) >= 2 /\ CompletesIn(i)
               /\ \A h \in Sources : is_done'[h])
            => out' = Append(out, Close)]_vars

\* C11 witness: of three sources, source 0 completed without emitting; the
\* value of source 1 completed nothing, source 1 completed, and the value of
\* source 2 then completed the zip.
C11_Witness ==
    /\ Zip /\ Len(args) = 3
    /\ EmptyDone(0)
    /\ sent[1] = 1 /\ is_done[1]
    /\ sent[2] = 1 /\ ~is_done[2]
    /\ queues[1] = <<10>>
    /\ out = <<Close>>

\* C12: zip of no sources: subscribe stores no subscription, the observer
\* never receives a call, and the handle can be disposed (dispose() is possible
\* after subscribe, and leaves the observer without a call).
C12_ZeroSourcesSilent ==
    (Len(args) = 0)
    => /\ out = <<>>
       /\ Sources = {} /\ subscriptions = <<>> /\ Owned = {}
       /\ (subscribed /\ dispose_calls < MaxDispose) => ENABLED Dispose

\* C12 witness: the zip of no sources was subscribed to and its handle
\* disposed twice.
C12_Witness ==
    /\ Len(args) = 0 /\ subscribed
    /\ is_disposed /\ dispose_calls = 2
    /\ out = <<>>

\* C13: List-Zip: once the source has delivered the value the combiner raises
\* on (value number poison, within the list), the observer has received the
\* combined values before it, then the failure and nothing else; the cursor
\* stands after that value, the subscription has received dispose() and no
\* later source value is delivered.
C13_ListCombinerFailureTerminates ==
    (/\ ListZip /\ result_mapper = "sum"
     /\ poison >= 1 /\ poison <= length
     /\ sent[0] >= poison)
    => /\ sent[0] = poison /\ index = poison
       /\ Len(out) = poison
       /\ \A k \in 1..(poison - 1) : out[k] = Send(SourceValue(0, k) + second[k])
       /\ out[poison] = Throw("CombinerError", None)
       /\ disposals[0] = 1

\* C13 witness: the combiner raised on the first value against a list of two
\* elements while the source, not terminated, had three more values.
C13_Witness ==
    /\ ListZip /\ poison = 1 /\ length = 2
    /\ script_len[0] = 4 /\ src[0] = "live"
    /\ index = 1
    /\ out = <<Throw("CombinerError", None)>>

\* A step in which the value of source i is processed and the completion is
\* the call it makes: the branch of lines 52-53.
ClosesAtValueOf(i) == ValueIn(i) /\ out' = Append(out, Close)

\* C15 as stated: N-ary zip, N >= 2: in a step that processes a value of
\* source i and completes downstream in the branch of lines 52-53, every other
\* source has an empty queue.
C15_OthersDrained ==
    [][\A i \in Sources :
         (Zip /\ Len(args) >= 2 /\ ClosesAtValueOf(i))
         => \A j \in Sources \ {i} : queues[j] = <<>>]_vars

\* C15 amended: N-ary zip, N >= 2: in a step that processes a value of source
\* i and completes downstream in the branch of lines 52-53, every other source
\* is done and at least one of them has an empty queue (with N = 2, the other
\* source); the queues of the other sources are left as they are, whatever
\* they hold.
C15_SomeOtherDrained ==
    [][\A i \in Sources :
         (Zip /\ Len(args) >= 2 /\ ClosesAtValueOf(i))
         => /\ \A j \in Sources \ {i} : is_done[j]
            /\ \E j \in Sources \ {i} : queues[j] = <<>>
            /\ \A j \in Sources \ {i} : queues'[j] = queues[j]]_vars

\* C15 witness: of three sources, source 0 is done with its second value
\* still buffered and source 1 is done and drained; the second value of source
\* 2 completed the zip.
C15_Witness ==
    /\ Zip /\ Len(args) = 3
    /\ is_done[0] /\ queues[0] = <<2>>
    /\ is_done[1] /\ queues[1] = <<>>
    /\ ~is_done[2] /\ sent[2] = 2
    /\ out = <<Send(111), Close>>

\* C16: N-ary zip: the step that processes the completion of a source while
\* another source is not done makes no call on observer, whatever the queues
\* hold; and the completion is appended to the observer's calls only by a step
\* that processes a value of a source i while every other source is done and
\* some other queue is empty, or by the step that completes the last source.
C16_AsymmetricCompletion ==
    /\ [][\A j \in Sources :
            (Zip /\ CompletesIn(j) /\ \E i \in Sources : ~is_done'[i])
            => out' = out]_vars
    /\ [][(Zip /\ Len(Closes') > Len(Closes))
            => \/ \E i \in Sources :
                    /\ ValueIn(i)
                    /\ \A j \in Sources \ {i} : is_done[j]
                    /\ \E j \in Sources \ {i} : queues[j] = <<>>
               \/ \E i \in Sources :
                    CompletesIn(i) /\ \A j \in Sources : is_done'[j]]_vars

\* C16 witness: of two sources, source 1 is done and drained, source 0 holds
\* a buffered value and has neither completed nor failed: nothing has
\* completed the zip.
C16_Witness ==
    /\ Zip /\ Len(args) = 2
    /\ is_done[1] /\ queues[1] = <<>>
    /\ src[0] = "live" /\ queues[0] = <<2>> /\ sent[0] = script_len[0]
    /\ out = <<Send(11)>>
    /\ ~is_disposed

\* The tuples taken from the queues so far: one per value received and one
\* per failure of the combiner.
Consumed ==
    Len(Sends)
    + Len(SelectSeq(out, LAMBDA c : c.kind = "throw" /\ c.error # "SourceError"))

\* The queues a value x of source i leaves when it is appended to queue i and,
\* if no queue is then empty, the head of every queue is removed.
AfterValue(i, x) ==
    LET q1 == [queues EXCEPT ![i] = Append(@, x)]
    IN IF \A j \in Sources : q1[j] # <<>>
       THEN [j \in Sources |-> Tail(q1[j])]
       ELSE q1

\* C17: N-ary zip, serialized delivery: queue j holds, oldest first, the
\* values of source j delivered and not yet taken (so values enter at the tail
\* and leave at the head, one per queue and tuple); a step that processes a
\* value of source i appends it to queue i and removes the head of every queue
\* exactly if no queue is then empty, the heads going to the combiner in
\* index order; any other step leaves the queues as they are.
C17_QueueDiscipline ==
    /\ [](Zip => \A j \in Sources :
            /\ sent[j] >= Consumed
            /\ queues[j] = [k \in 1..(sent[j] - Consumed) |->
                              SourceValue(j, Consumed + k)])
    /\ [][\A i \in Sources : (Zip /\ ValueIn(i)) =>
            /\ queues' = AfterValue(i, SourceValue(i, sent'[i]))
            /\ (result_mapper = "sum" /\ poison = 0 /\ queues'[i] # Append(queues[i], SourceValue(i, sent'[i])))
               => out' = Append(out, Send(Sum(
                     [k \in 1..Len(args) |->
                        IF k - 1 = i /\ queues[i] = <<>> THEN SourceValue(i, sent'[i])
                        ELSE Head(queues[k - 1])])))]_vars
    /\ [][(Zip /\ \A i \in Sources : ~ValueIn(i)) => queues' = queues]_vars

\* C17 witness: of three sources, source 0 has delivered two values and the
\* others one: the first tuple was taken, the second value of source 0 waits.
C17_Witness ==
    /\ Zip /\ Len(args) = 3 /\ result_mapper = "sum"
    /\ sent = [i \in Sources |-> IF i = 0 THEN 2 ELSE 1]
    /\ queues = [i \in Sources |-> IF i = 0 THEN <<2>> ELSE <<>>]
    /\ out = <<Send(111)>>

\* C18: List-Zip cursor: 0 <= index <= L always, index is 0 until and when
\* subscribe has run, never decreases, grows by exactly 1 in a step that
\* processes a source value while index < L (also when the combiner raises),
\* is unchanged by a value processed at index = L and by every other step, and
\* the list operand is never modified.
C18_CursorBounded ==
    /\ [](IsList => /\ 0 <= index /\ index <= Len(second)
                    /\ ~subscribed => index = 0
                    /\ subscribed => length = Len(second))
    /\ [][(IsList /\ ~subscribed /\ subscribed') => index' = 0]_vars
    /\ [][ListZip => /\ index' >= index
                     /\ ValueIn(0) =>
                          index' = IF index < length THEN index + 1 ELSE index
                     /\ ~ValueIn(0) => index' = index]_vars
    /\ [][second' = second]_vars

\* C18 witness: against a list of two elements the combiner raised on the
\* second value: the cursor stands at 2.
C18_Witness ==
    /\ ListZip /\ length = 2 /\ poison = 2
    /\ index = 2
    /\ out = <<Send(11), Throw("CombinerError", None)>>

\* C19: List-Zip: the step in which the source fails appends that failure,
\* and the step in which it completes appends the completion, to the
\* observer's calls, whatever the cursor; and a step that processes a source
\* value makes exactly one call on observer: no value is held back.
C19_ListForwardsTerminal ==
    /\ [][(ListZip /\ FailsIn(0)) => out' = Append(out, Throw("SourceError", 0))]_vars
    /\ [][(ListZip /\ CompletesIn(0)) => out' = Append(out, Close)]_vars
    /\ [][(ListZip /\ ValueIn(0)) => Len(out') = Len(out) + 1]_vars

\* C19 witness: the source completed after one value against a list of two
\* elements: the completion follows the one combined value, the cursor at 1.
C19_Witness ==
    /\ ListZip /\ length = 2 /\ index = 1
    /\ src[0] = "completed"
    /\ out = <<Send(11), Close>>

\* C20: N-ary zip, serialized delivery, a combiner that does not raise: in
\* every state at least one queue is empty, and a step that processes a value
\* takes at most one value from each queue and adds at most one value to what
\* the observer has received.
C20_NoTupleLeftBuffered ==
    /\ []((Zip /\ result_mapper = "sum" /\ poison = 0)
            => \E j \in Sources : queues[j] = <<>>)
    /\ [][\A i \in Sources :
            (Zip /\ result_mapper = "sum" /\ poison = 0 /\ ValueIn(i))
            => /\ Len(Sends') <= Len(Sends) + 1
               /\ Consumed' <= Consumed + 1
               /\ \A j \in Sources : Len(queues'[j]) >= Len(queues[j]) - 1]_vars

\* C20 witness: of two sources, source 1 has delivered two values and source
\* 0 one: one value was received, the second value of source 1 waits and
\* queue 0 is empty.
C20_Witness ==
    /\ Zip /\ Len(args) = 2 /\ result_mapper = "sum" /\ poison = 0
    /\ queues[0] = <<>> /\ queues[1] = <<20>>
    /\ out = <<Send(11)>>

\* The values subscriber s has received.
SendsOf(s) == SelectSeq(outs[s], LAMBDA c : c.kind = "send")

\* A step taken on behalf of subscriber s: its call of subscribe or a
\* notification of one of its sources.
StepOf(s) ==
    closure'[s] # closure[s] \/ sents'[s] # sents[s] \/ srcs'[s] # srcs[s]

\* C14: two subscribers of one zip definition (N-ary or List-Zip): the two
\* hold different states, created by their own calls of subscribe; a step
\* taken for one leaves the other's queues, done flags, cursor and received
\* calls unchanged; and what each holds and has received is what its own
\* notifications alone determine: with the supplied combiner, in the N-ary zip
\* the k-th index-aligned sums for k up to the least number of values its
\* sources delivered, queue j holding the later values of source j and the
\* done flags its sources' completions; in List-Zip the sums with the list
\* elements up to min(values delivered, L), the cursor standing there.
C14_SubscriptionsIndependent ==
    /\ [](\A s \in Subscribers :
            /\ closure[s] # None => closure[s] \in DOMAIN cells
            /\ closure[s] = None =>
                 outs[s] = <<>> /\ \A i \in Sources : sents[s][i] = 0
            /\ \A t \in Subscribers \ {s} :
                 closure[s] # None => closure[t] # closure[s])
    /\ [][\A s \in Subscribers : StepOf(s) =>
            \A t \in Subscribers \ {s} :
              /\ closure'[t] = closure[t]
              /\ outs'[t] = outs[t]
              /\ closure[t] # None => cells'[closure[t]] = cells[closure[t]]]_vars
    /\ [](\A s \in Subscribers :
            (closure[s] # None /\ ~IsList /\ result_mapper = "sum") =>
              LET st == cells[closure[s]]
                  taken == Len(SendsOf(s))
              IN /\ taken = Min({sents[s][i] : i \in Sources})
                 /\ \A k \in 1..taken : SendsOf(s)[k].value = Sum(Tuple(k))
                 /\ \A j \in Sources :
                      /\ st.queues[j] = [k \in 1..(sents[s][j] - taken) |->
                                           SourceValue(j, taken + k)]
                      /\ st.is_done[j] = (srcs[s][j] = "completed"))
    /\ [](\A s \in Subscribers :
            (closure[s] # None /\ IsList /\ result_mapper = "sum") =>
              LET st == cells[closure[s]]
              IN /\ st.length = Len(second)
                 /\ st.index = Min({sents[s][0], Len(second)})
                 /\ Len(SendsOf(s)) = st.index
                 /\ \A k \in 1..st.index :
                      SendsOf(s)[k].value = SourceValue(0, k) + second[k])

\* C14 witness: of two subscribers of a zip of two sources, "a" has received
\* the first sum and holds the second value of source 0, source 1 being done
\* for it, while "b" holds only the first value of source 1.
C14_Witness ==
    /\ ~IsList /\ Len(args) = 2 /\ result_mapper = "sum"
    /\ closure["a"] # None /\ closure["b"] # None
    /\ outs["a"] = <<Send(11)>> /\ outs["b"] = <<>>
    /\ cells[closure["a"]].queues = [i \in Sources |-> IF i = 0 THEN <<2>> ELSE <<>>]
    /\ cells[closure["a"]].is_done = [i \in Sources |-> i = 1]
    /\ cells[closure["b"]].queues = [i \in Sources |-> IF i = 1 THEN <<10>> ELSE <<>>]
    /\ cells[closure["b"]].is_done = [i \in Sources |-> FALSE]

====
